---- MODULE Spec2Model ----
(***************************************************************************)
(* Model of the Atari demo harness: evo_utils/atari_net.py (AtariNet) and  *)
(* atari_demo.py (AtariDemo, main).                                        *)
(*                                                                         *)
(* Numbers.  Weights are written in units of val_buffer (1e-6), so that    *)
(* minval = -1, maxval = 1 and minval + val_buffer are all integers.       *)
(* Rewards and scores are written in hundredths.  Probabilities (epsilon,  *)
(* the draws of np.random.rand) are written in units of 1/RandGrid.        *)
(***************************************************************************)
EXTENDS Integers, Sequences, FiniteSets, TLC

(* ---------------------------- bounds ----------------------------------- *)
MaxSteps == 3      \* longest episode the environment is allowed to produce
LayerLen == 2      \* number of entries of the kernel tensor
NumActions == 3    \* size of the action space of the environment
RandGrid == 2      \* np.random.rand() draws k/RandGrid, k in 0..RandGrid-1

(* ------------------- AtariNet.__init__ defaults ------------------------ *)
val_buffer == 1
minval == 0 - 1000000
maxval == 1000000
replace_min == minval + val_buffer

WeightVals == {minval, 0, maxval}

\* The trainable tensors of the net: the output layer's kernel and bias.
NetShape == <<LayerLen, 1>>

Tensors(n) == [1..n -> WeightVals]

Shape(w) == [i \in 1..Len(w) |-> Len(w[i])]

\* Weight sets whose shapes match the net.
CompatibleSets == {<<k, b>> : k \in Tensors(LayerLen), b \in Tensors(1)}

\* Weight sets a pickle file can hold whose shapes match the net.
FileVals == {minval, maxval}
FileSets == {<<k, b>> : k \in [1..LayerLen -> FileVals], b \in [1..1 -> FileVals]}

\* Weight sets whose shapes disagree with the net (a kernel of the wrong
\* size, or a missing tensor).
MismatchedSets ==
    {<<k, b>> : k \in [1..(LayerLen + 1) -> FileVals], b \in [1..1 -> FileVals]}
        \cup {<<k>> : k \in [1..LayerLen -> FileVals]}

NoWeights == <<>>

AgentFiles ==
    {[exists |-> FALSE, w |-> NoWeights]}
        \cup {[exists |-> TRUE, w |-> w] : w \in FileSets \cup MismatchedSets}

(* ------------------------- environment --------------------------------- *)
\* Rewards of one step, in hundredths (0.0, 1.0 and 2.0).
Rewards == {0, 100, 200}

\* Time-steps the environment may answer reset() and step() with: the
\* interface leaves the termination signal to the environment.
ResetSteps == {[is_last |-> last, reward |-> 0] : last \in BOOLEAN}
StepResults == {[is_last |-> last, reward |-> r] : last \in BOOLEAN, r \in Rewards}

\* epsilon as main receives it: 0, 1/2 and 1, in units of 1/RandGrid.
EpsOne == RandGrid
Epsilons == {0, RandGrid \div 2, EpsOne}

\* Possible results of np.random.rand(): the half-open interval [0, 1).
RandDraws == 0..(RandGrid - 1)

\* Output activations the network can produce for an observation.
Activations == [1..NumActions -> {0, 1}]

NoAction == 0 - 1

(* --------------------------- exceptions -------------------------------- *)
NoError == [type |-> "none", origin |-> "none"]

\* Python's class hierarchy, as far as the handlers of the code need it:
\* IOError is OSError, FileNotFoundError derives from it, AssertionError
\* does not.
IsSubclass(exc, handler) ==
    \/ exc = handler
    \/ exc = "FileNotFoundError" /\ handler = "IOError"

VARIABLES
    pc,           \* position of main / AtariDemo.run
    confExists,   \* whether the configuration path exists on disk
    agentFile,    \* the pickle file at agent_path
    epsilon,      \* the epsilon main was called with
    weights,      \* the parameters stored in the network
    loaded,       \* the object pickle.load returned (set_weights edits it)
    stdout,       \* lines printed so far
    openAttempted,\* the configuration file open was reached
    error,        \* the uncaught exception that ended the process, if any
    time_step,    \* run's local: the current time-step
    score,        \* run's local: the accumulator
    action_step,  \* run's local: the action chosen for the next step
    activations,  \* output of the last predict call (<<>> if none)
    branch,       \* branch the last call of action took
    rngDraws,     \* number of draws the last call of action took from rand()
    events,       \* calls made on the environment and the report, in order
    rewards,      \* rewards the environment has handed out, in order
    seenNonLast,  \* number of loop tests that saw a non-terminal time-step
    returned      \* result of a get_weights / get_scaled_weights call, until main moves on

vars == <<pc, confExists, agentFile, epsilon, weights, loaded, stdout,
          openAttempted, error, time_step, score, action_step, activations,
          branch, rngDraws, events, rewards, seenNonLast, returned>>

netVars == <<weights, loaded>>
runVars == <<time_step, score, action_step, activations, branch, rngDraws,
             events, rewards, seenNonLast>>
inputVars == <<confExists, agentFile, epsilon>>

NoStep == [is_last |-> FALSE, reward |-> 0]
PyFloat(x) == [kind |-> "float", val |-> <<x>>]
Tensor(x) == [kind |-> "tensor", val |-> <<x>>]
NoReturn == [kind |-> "none", val |-> <<>>]

Init ==
    /\ pc = "main"
    /\ confExists \in BOOLEAN
    /\ agentFile \in AgentFiles
    /\ epsilon \in Epsilons
    /\ weights = NoWeights
    /\ loaded = NoWeights
    /\ stdout = <<>>
    /\ openAttempted = FALSE
    /\ error = NoError
    /\ time_step = NoStep
    /\ score = PyFloat(0)
    /\ action_step = NoAction
    /\ activations = <<>>
    /\ branch = "none"
    /\ rngDraws = 0
    /\ events = <<>>
    /\ rewards = <<>>
    /\ seenNonLast = 0
    /\ returned = NoReturn

(* ------------------ AtariDemo.__init__ / _load_config ------------------ *)
\* try: assert os.path.exists(conf_path)  except IOError: print(...)
\* With assertions enabled a missing path raises AssertionError inside the
\* try; the handler runs only if the exception is an IOError.  Under
\* `python -O` the assert statement is compiled away.
Raise(type, origin) ==
    /\ error' = [type |-> type, origin |-> origin]
    /\ pc' = "aborted"

LoadConfig ==
    /\ pc = "main"
    /\ \E optimize \in BOOLEAN :
         LET assertFails == ~optimize /\ ~confExists
             caught == assertFails /\ IsSubclass("AssertionError", "IOError")
         IN  IF assertFails /\ ~caught
             THEN /\ Raise("AssertionError", "exists_check")
                  /\ UNCHANGED <<stdout, openAttempted>>
             ELSE /\ stdout' = IF caught
                               THEN Append(stdout, "The config file specified does not exist.")
                               ELSE stdout
                  /\ openAttempted' = TRUE
                  /\ IF confExists
                     THEN /\ pc' = "conf_loaded"
                          /\ error' = error
                     ELSE Raise("FileNotFoundError", "open")
    /\ UNCHANGED <<inputVars, netVars, runVars>>
    /\ returned' = NoReturn

\* AtariNet.__init__: every parameter is drawn by RandomUniform(minval, maxval).
Construct ==
    /\ pc = "conf_loaded"
    /\ weights' \in CompatibleSets
    /\ pc' = "constructed"
    /\ UNCHANGED <<inputVars, loaded, stdout, openAttempted, error, runVars>>
    /\ returned' = NoReturn

(* ------------------------------ AtariNet ------------------------------- *)
\* set_weights, the loop over the layers: a layer holding any value equal to
\* minval has exactly those values replaced by replace_min.
\* Faulty variant: the two value arguments of np.where exchanged.
NudgeLayerSwapped(layer) ==
    IF \E j \in 1..Len(layer) : layer[j] = minval
    THEN [j \in 1..Len(layer) |->
             IF layer[j] = minval THEN layer[j] ELSE replace_min]
    ELSE layer

NudgeLayer(layer) ==
    IF \E j \in 1..Len(layer) : layer[j] = minval
    THEN [j \in 1..Len(layer) |->
             IF layer[j] = minval THEN replace_min ELSE layer[j]]
    ELSE layer

Nudge(w) == [i \in 1..Len(w) |-> NudgeLayer(w[i])]

\* The weight assignment of the layer library: it accepts a weight set only
\* if it has one tensor per parameter, each of the parameter's shape.
\* Faulty variant: an assignment that accepts any shapes.
ShapeUnchecked(w) == TRUE

ShapeCompatible(w) == Shape(w) = NetShape

\* get_scaled_weights on one value: (x - minval) / span, kept as a fraction.
\* Faulty variant: the division without the shift by minval.
ScaleValueNoShift(x) == [num |-> x, den |-> maxval - minval]

ScaleValue(x) == [num |-> x - minval, den |-> maxval - minval]

ScaleSet(w) == [i \in 1..Len(w) |-> [j \in 1..Len(w[i]) |-> ScaleValue(w[i][j])]]

\* np.argmax: one left-to-right scan that moves to a later index only on a
\* strictly larger value.  Indices are 0-based.
RECURSIVE ArgMaxScan(_, _, _)
ArgMaxScan(v, i, best) ==
    IF i > Len(v) THEN best - 1
    ELSE ArgMaxScan(v, i + 1, IF v[i] > v[best] THEN i ELSE best)

\* Faulty variant: a scan that also moves on equal values (last maximum).
RECURSIVE ArgMaxLastScan(_, _, _)
ArgMaxLastScan(v, i, best) ==
    IF i > Len(v) THEN best - 1
    ELSE ArgMaxLastScan(v, i + 1, IF v[i] >= v[best] THEN i ELSE best)

ArgMaxLast(v) == ArgMaxLastScan(v, 2, 1)

ArgMax(v) == ArgMaxScan(v, 2, 1)

\* `if epsilon and ...`: the right operand, and with it np.random.rand(), is
\* evaluated only when epsilon is truthy.
\* Faulty variant: the random source consulted whatever epsilon is.
AlwaysDraw(eps) == TRUE

Truthy(eps) == eps # 0

RandomBranch(eps, draw) == eps > draw

NetBuilt == pc \in {"constructed", "imported", "loop", "selected", "stepped", "closed", "done"}

\* get_weights: the stored parameters, as a fresh object array.
GetWeights ==
    /\ NetBuilt
    /\ returned' = [kind |-> "weights", val |-> weights]
    /\ UNCHANGED <<pc, inputVars, weights, loaded, stdout, openAttempted, error, runVars>>

\* Faulty variant: the shift applied to the stored arrays themselves.
GetScaledWeightsInPlace ==
    /\ NetBuilt
    /\ returned' = [kind |-> "scaled", val |-> ScaleSet(weights)]
    /\ weights' = [i \in 1..Len(weights) |->
                      [j \in 1..Len(weights[i]) |-> weights[i][j] - minval]]
    /\ UNCHANGED <<pc, inputVars, loaded, stdout, openAttempted, error, runVars>>

\* get_scaled_weights: (get_weights() - minval) / span.
GetScaledWeights ==
    /\ NetBuilt
    /\ returned' = [kind |-> "scaled", val |-> ScaleSet(weights)]
    /\ UNCHANGED <<pc, inputVars, weights, loaded, stdout, openAttempted, error, runVars>>

(* ----------------------- AtariDemo.import_weights ---------------------- *)
\* open + pickle.load, then AtariNet.set_weights: the nudge edits the loaded
\* object in place, then the library assigns it or raises on a shape mismatch.
ImportWeights ==
    /\ pc = "constructed"
    /\ IF ~agentFile.exists
       THEN /\ Raise("FileNotFoundError", "open_agent")
            /\ UNCHANGED <<weights, loaded>>
       ELSE /\ loaded' = Nudge(agentFile.w)
            /\ IF ShapeCompatible(loaded')
               THEN /\ weights' = loaded'
                    /\ pc' = "imported"
                    /\ error' = error
               ELSE /\ Raise("ValueError", "layer_set_weights")
                    /\ weights' = weights
    /\ UNCHANGED <<inputVars, stdout, openAttempted, runVars>>
    /\ returned' = NoReturn

(* ----------------------------- AtariDemo.run --------------------------- *)
\* time_step = self.env.reset(); score = 0.0
RunReset ==
    /\ pc = "imported"
    /\ time_step' \in ResetSteps
    /\ score' = PyFloat(0)
    /\ events' = Append(events, "reset")
    /\ pc' = "loop"
    /\ UNCHANGED <<inputVars, netVars, stdout, openAttempted, error, action_step,
                   activations, branch, rngDraws, rewards, seenNonLast>>
    /\ returned' = NoReturn

\* Loop test passed; action_step = self.agent.action(time_step, epsilon).
SelectAction ==
    /\ pc = "loop"
    /\ ~time_step.is_last
    /\ seenNonLast' = seenNonLast + 1
    /\ \/ /\ Truthy(epsilon)
          /\ \E draw \in RandDraws :
               IF RandomBranch(epsilon, draw)
               THEN /\ action_step' \in 0..(NumActions - 1)
                    /\ activations' = <<>>
                    /\ branch' = "random"
                    /\ rngDraws' = 2
               ELSE /\ \E out \in Activations :
                         /\ activations' = out
                         /\ action_step' = ArgMax(out)
                    /\ branch' = "greedy"
                    /\ rngDraws' = 1
       \/ /\ ~Truthy(epsilon)
          /\ \E out \in Activations :
               /\ activations' = out
               /\ action_step' = ArgMax(out)
          /\ branch' = "greedy"
          /\ rngDraws' = 0
    /\ events' = Append(events, "action")
    /\ pc' = "selected"
    /\ UNCHANGED <<inputVars, netVars, stdout, openAttempted, error, time_step,
                   score, rewards>>
    /\ returned' = NoReturn

\* score += time_step.reward: the environment hands out batched tensors, so
\* the float accumulator becomes a tensor of one element.
AddReward(s, r) == Tensor(s.val[1] + r)

\* time_step = self.env.step(action_step); score += time_step.reward
EnvStep ==
    /\ pc = "selected"
    /\ Len(rewards) < MaxSteps
    /\ \E ts \in StepResults :
         /\ time_step' = ts
         /\ score' = AddReward(score, ts.reward)
         /\ rewards' = Append(rewards, ts.reward)
    /\ events' = Append(events, "step")
    /\ activations' = <<>>
    /\ branch' = "none"
    /\ rngDraws' = 0
    /\ pc' = "stepped"
    /\ UNCHANGED <<inputVars, netVars, stdout, openAttempted, error, action_step,
                   seenNonLast>>
    /\ returned' = NoReturn

\* self.env.render(mode='human'); time.sleep(0.01)
Render ==
    /\ pc = "stepped"
    /\ events' = Append(events, "render")
    /\ pc' = "loop"
    /\ UNCHANGED <<inputVars, netVars, stdout, openAttempted, error, time_step,
                   score, action_step, activations, branch, rngDraws, rewards,
                   seenNonLast>>
    /\ returned' = NoReturn

\* Loop test failed; self.env.close()
Close ==
    /\ pc = "loop"
    /\ time_step.is_last
    /\ events' = Append(events, "close")
    /\ pc' = "closed"
    /\ UNCHANGED <<inputVars, netVars, stdout, openAttempted, error, time_step,
                   score, action_step, activations, branch, rngDraws, rewards,
                   seenNonLast>>
    /\ returned' = NoReturn

\* '{:.2f}'.format(x) for x in hundredths: sign, whole part, two decimals.
Format2f(x) ==
    LET a == IF x < 0 THEN 0 - x ELSE x
    IN  [neg |-> x < 0, whole |-> a \div 100, frac |-> a % 100]

\* score[0]: an element of a tensor; a Python float is not subscriptable.
Subscriptable(s) == s.kind = "tensor"

\* print('\nThe agent scored {:.2f}\n'.format(score[0]))
Report ==
    /\ pc = "closed"
    /\ IF Subscriptable(score)
       THEN /\ stdout' = Append(stdout, Format2f(score.val[1]))
            /\ events' = Append(events, "report")
            /\ pc' = "done"
            /\ error' = error
       ELSE /\ Raise("TypeError", "score_subscript")
            /\ UNCHANGED <<stdout, events>>
    /\ UNCHANGED <<inputVars, netVars, openAttempted, time_step, score, action_step,
                   activations, branch, rngDraws, rewards, seenNonLast>>
    /\ returned' = NoReturn

Next ==
    \/ LoadConfig
    \/ Construct
    \/ ImportWeights
    \/ GetWeights
    \/ GetScaledWeights
    \/ RunReset
    \/ SelectAction
    \/ EnvStep
    \/ Render
    \/ Close
    \/ Report

Spec == Init /\ [][Next]_vars

TypeOK ==
    /\ pc \in {"main", "conf_loaded", "constructed", "imported", "loop", "selected",
               "stepped", "closed", "done", "aborted"}
    /\ action_step \in {NoAction} \cup 0..(NumActions - 1)

(* ============================ properties =============================== *)
RECURSIVE SumSeq(_)
SumSeq(q) == IF q = <<>> THEN 0 ELSE q[1] + SumSeq(Tail(q))

Count(e) == Cardinality({i \in 1..Len(events) : events[i] = e})

\* run has ended: it returned, or its last statement raised.
RunEnded == pc = "done" \/ (pc = "aborted" /\ error.origin = "score_subscript")

\* run has been entered (reset has been called).
InRun == pc \in {"loop", "selected", "stepped", "closed", "done"} \/ RunEnded

\* import_weights has returned normally.
Imported == pc = "imported" \/ InRun

\* What set_weights is to store for a file holding w, position by position.
ExpectedStored(w) ==
    [i \in 1..Len(w) |->
        [j \in 1..Len(w[i]) |->
            IF w[i][j] = minval THEN minval + val_buffer ELSE w[i][j]]]

Positions(w) == {<<i, j>> \in (1..Len(w)) \X (1..(LayerLen + 1)) : j <= Len(w[i])}

\* b may directly follow a in the order Reset {SelectAction Step Render} Close Report.
Follows(a, b) ==
    \/ a = "reset" /\ b \in {"action", "close"}
    \/ a = "action" /\ b = "step"
    \/ a = "step" /\ b = "render"
    \/ a = "render" /\ b \in {"action", "close"}
    \/ a = "close" /\ b = "report"

\* C1: in every execution of run the events are Reset, then iterations of
\* (SelectAction, Step, Render), then Close, then Report; reset, close and
\* report happen exactly once, close only on a last time-step, report only
\* after close.
C1_RunOrder ==
    /\ events # <<>> => events[1] = "reset"
    /\ \A i \in 1..(Len(events) - 1) : Follows(events[i], events[i + 1])
    /\ Count("close") > 0 => time_step.is_last
    /\ RunEnded => Count("reset") = 1 /\ Count("close") = 1 /\ Count("report") = 1

\* C2: the score run reports is the sum of the rewards of the episode's
\* n >= 0 steps, formatted to two decimals.
C2_ReportedScore ==
    RunEnded => stdout = <<Format2f(SumSeq(rewards))>>

\* C3: get_weights() after set_weights(w) has w's shapes, minval + buffer
\* where w held minval and w's value everywhere else; it is w itself when w
\* holds no minval.
C3_SetWeightsNudge ==
    (pc = "imported" /\ returned.kind = "weights") =>
        LET w == agentFile.w
            g == returned.val
        IN  /\ Shape(g) = Shape(w)
            /\ \A p \in Positions(w) :
                 g[p[1]][p[2]] = IF w[p[1]][p[2]] = minval
                                 THEN minval + val_buffer
                                 ELSE w[p[1]][p[2]]
            /\ (\A p \in Positions(w) : w[p[1]][p[2]] # minval) => g = w

C3_Witness ==
    /\ pc = "imported"
    /\ returned.kind = "weights"
    /\ \E p, q \in Positions(agentFile.w) :
         /\ p[1] = q[1]
         /\ agentFile.w[p[1]][p[2]] = minval
         /\ agentFile.w[q[1]][q[2]] # minval

\* C4: action with epsilon = 0 never takes the random branch and never draws
\* from the random source, and returns an index of the largest activation;
\* with epsilon = 1 it takes the random branch whatever rand() draws; the
\* action is always in [0, action_shape).
C4_EpsilonBranch ==
    pc = "selected" =>
        /\ action_step \in 0..(NumActions - 1)
        /\ epsilon = 0 =>
             /\ branch = "greedy"
             /\ rngDraws = 0
             /\ \A k \in 1..NumActions : activations[k] <= activations[action_step + 1]
        /\ epsilon = EpsOne => branch = "random"

C4_Witness ==
    /\ pc = "selected"
    /\ epsilon = 0
    /\ branch = "greedy"
    /\ rngDraws = 0
    /\ action_step > 0

Diagnostic == "The config file specified does not exist."

\* C5: with a missing configuration path, construction prints the diagnostic,
\* still attempts the open, and is aborted by the error of the open.
C5_DiagnosticThenOpen ==
    (~confExists /\ pc = "aborted") =>
        /\ \E i \in 1..Len(stdout) : stdout[i] = Diagnostic
        /\ openAttempted
        /\ error.origin = "open"

\* import_weights has been called.
ImportCalled == pc \notin {"main", "conf_loaded", "constructed"}
                   /\ error.origin \notin {"exists_check", "open"}

\* C6: import_weights ends in an uncaught error when the file is missing or
\* its shapes disagree with the net's; the mismatch error is raised by the
\* library's weight assignment; nothing is retried and run is never started.
C6_ImportFailure ==
    ImportCalled =>
        /\ ~agentFile.exists =>
             /\ pc = "aborted"
             /\ error = [type |-> "FileNotFoundError", origin |-> "open_agent"]
             /\ events = <<>>
        /\ (agentFile.exists /\ Shape(agentFile.w) # NetShape) =>
             /\ pc = "aborted"
             /\ error = [type |-> "ValueError", origin |-> "layer_set_weights"]
             /\ events = <<>>

C6_Witness ==
    /\ pc = "aborted"
    /\ error.origin = "layer_set_weights"
    /\ Len(agentFile.w) = Len(NetShape)

\* Fractions of one denominator compare by their numerators.
FracLess(a, b) == a.den = b.den /\ a.den > 0 /\ a.num < b.num

C7_Scaled ==
    returned.kind = "scaled" =>
        LET s == returned.val
            span == maxval - minval
        IN  /\ Shape(s) = Shape(weights)
            /\ \A p \in Positions(weights) :
                 LET x == weights[p[1]][p[2]]
                     y == s[p[1]][p[2]]
                 IN  /\ y.den = span
                     /\ y.num = x - minval
                     /\ x = minval => y.num = 0
                     /\ x = maxval => y.num = y.den
            /\ \A p, q \in Positions(weights) :
                 weights[p[1]][p[2]] < weights[q[1]][q[2]] =>
                     FracLess(s[p[1]][p[2]], s[q[1]][q[2]])

\* C7: get_scaled_weights returns (w - minval) / (maxval - minval) position
\* by position: minval maps to 0, maxval to 1, larger weights to strictly
\* larger results; the call leaves the stored weights as they were.
C7_ScaledWeights ==
    /\ []C7_Scaled
    /\ [][returned'.kind = "scaled" => weights' = weights]_vars

C7_Witness ==
    /\ pc = "constructed"
    /\ returned.kind = "scaled"
    /\ \E p, q \in Positions(weights) :
         /\ weights[p[1]][p[2]] = minval
         /\ weights[q[1]][q[2]] = maxval

\* C8: run leaves its loop only on a last time-step; the loop body runs once
\* per non-terminal time-step seen (not at all when reset returns a terminal
\* one); once the environment returns a last time-step run goes on to close
\* and to report.
C8_ExitOnlyOnLast ==
    /\ pc \in {"closed", "done", "aborted"} /\ InRun => time_step.is_last
    /\ pc \in {"loop", "closed", "done", "aborted"} /\ InRun =>
         /\ Len(rewards) = seenNonLast
         /\ Count("step") = seenNonLast
         /\ Count("render") = seenNonLast
    /\ RunEnded => Count("close") = 1 /\ Count("report") = 1 /\ pc = "done"

\* C9: after import_weights the stored weights stay what the import stored,
\* through every action selection, step and render of run and every
\* get_weights / get_scaled_weights call.
C9_WeightsFixed ==
    Imported =>
        /\ weights = loaded
        /\ returned.kind = "weights" => returned.val = loaded

C9_Witness ==
    /\ pc = "done"
    /\ Len(rewards) >= 2
    /\ returned.kind = "weights"
    /\ returned.val = ExpectedStored(agentFile.w)

\* C10: on the greedy path action returns the index of the largest
\* activation, and the lowest such index when several are equal to it.
C10_StableArgMax ==
    (pc = "selected" /\ branch = "greedy") =>
        /\ \A k \in 1..NumActions : activations[k] <= activations[action_step + 1]
        /\ \A k \in 1..action_step : activations[k] < activations[action_step + 1]

C10_Witness ==
    /\ pc = "selected"
    /\ branch = "greedy"
    /\ \E k \in 1..NumActions :
         /\ k > action_step + 1
         /\ activations[k] = activations[action_step + 1]

====
